---- MODULE Spec2Model ----
(***************************************************************************)
(* The camera demo of the KNN image classifier                             *)
(* (knn-image-classifier/demos/camera.js): startup (bindPage), the         *)
(* training buttons (setupGui) and the render loop (animate) with its      *)
(* promise chain  predictClass(image).then(update labels).then(dispose).   *)
(*                                                                         *)
(* The browser's event loop is single threaded: a task (a tick of the      *)
(* loop, a mouse event, the resolution of a promise) runs to completion    *)
(* and the microtasks it queues run before the next task.  The classifier  *)
(* (addImage, getClassExampleCount, predictClass) is a library outside     *)
(* this file; it is modelled by its contract.                              *)
(***************************************************************************)
EXTENDS Integers, Sequences, FiniteSets, TLC

\* camera.js:26
NUM_CLASSES == 3

\* Largest number of ticks of the render loop that is explored.
MaxTicks == 2

\* A confidence is a fraction n / ConfScale with n in 0..ConfScale.
ConfScale == 1

Classes == 0 .. (NUM_CLASSES - 1)

VARIABLES
    phase,              \* where bindPage stands
    hasMedia,           \* navigator.mediaDevices.getUserMedia exists
    display,            \* style.display of the loading, main and info elements
    infoContent,        \* textContent of the info element
    bindPageRejected,   \* the promise of bindPage() was rejected (nobody catches it)
    buttons,            \* number of training buttons created by setupGui
    infoTexts,          \* the info text span of each class
    training,           \* camera.js:32
    model,              \* camera.js:33
    video,              \* camera.js:34
    classExampleCount,  \* examples stored in the classifier, per class
    ticks,              \* number of calls of animate so far
    scheduled,          \* callbacks registered with requestAnimationFrame, not yet run
    images,             \* images[f]: the tensor captured by the f-th call of animate
    pending,            \* the promise chains of predictClass that are not finished
    lastTick,           \* log of the latest call of animate
    lastClassIndex,     \* res.classIndex of the latest resolved predictClass
    lastEvent,          \* the latest step taken
    unhandled,          \* images whose promise chain was rejected with no handler
    heldTicks           \* heldTicks[i]: calls of animate that began with button i held

vars == <<phase, hasMedia, display, infoContent, bindPageRejected, buttons,
          infoTexts, training, model, video, classExampleCount, ticks,
          scheduled, images, pending, lastTick, lastClassIndex, lastEvent,
          unhandled, heldTicks>>

-----------------------------------------------------------------------------
(* Values *)

\* The style or text an element has from the page's markup, before any script sets it.
FromPage == "page"

\* camera.js:191-192
FallbackMessage ==
    "this browser does not support video capture,or this device does not have a camera"

\* camera.js:102
NoExamplesText == [kind |-> "No examples added", count |-> 0, pct |-> 0]

\* camera.js:155: ` ${count} examples - ${conf}%`; pct is conf in units of 1/ConfScale
ExamplesText(count, conf) == [kind |-> "examples", count |-> count, pct |-> conf]

NoTick == [image |-> 0, training |-> -1, before |-> <<>>, trainCalls |-> <<>>,
           exampleCount |-> <<>>, predictCalls |-> <<>>, rescheduled |-> 0]

RECURSIVE SumOver(_, _)
SumOver(f, S) ==
    IF S = {} THEN 0
    ELSE LET x == CHOOSE y \in S : TRUE IN f[x] + SumOver(f, S \ {x})

\* The result field of a promise that is not resolved
NoRes == [classIndex |-> -1, confidences |-> <<>>]

\* Math.max(...a)
MathMax(a) == CHOOSE m \in {a[i] : i \in DOMAIN a} : \A i \in DOMAIN a : a[i] <= m

-----------------------------------------------------------------------------
(* The classifier, by its contract *)

\* train(frame, classIndex): the class's example count grows by one
AddImage(counts, classIndex) == [counts EXCEPT ![classIndex] = @ + 1]

\* exampleCounts(): the current per-class counts
GetClassExampleCount(counts) == counts

\* What the sequence returned by exampleCounts() holds when it is read after later
\* ticks: the counts at the time of the call (a copy) or the counts of the
\* classifier at the time of the read (the classifier's own sequence).
ReadLater(returned, counts) == {returned, GetClassExampleCount(counts)}

\* The results predict may produce: a class index and one confidence per class,
\* the confidences summing to 1 (ConfScale / ConfScale).  By its contract predict
\* fails only when no example is stored, so a call made with examples resolves
\* or stays in flight.
PredictionResults ==
    { [classIndex |-> c, confidences |-> v] :
        c \in Classes,
        v \in { w \in [Classes -> 0 .. ConfScale] : SumOver(w, Classes) = ConfScale } }

-----------------------------------------------------------------------------
Init ==
    /\ phase = "loading"
    /\ hasMedia \in BOOLEAN
    /\ display = [loading |-> FromPage, main |-> FromPage, info |-> FromPage]
    /\ infoContent = FromPage
    /\ bindPageRejected = FALSE
    /\ buttons = 0
    /\ infoTexts = <<>>
    /\ training = -1
    /\ model = "undefined"
    /\ video = "undefined"
    /\ classExampleCount = [i \in Classes |-> 0]
    /\ ticks = 0
    /\ scheduled = 0
    /\ images = <<>>
    /\ pending = {}
    /\ lastTick = NoTick
    /\ lastClassIndex = -1
    /\ lastEvent = <<"start">>
    /\ unhandled = {}
    /\ heldTicks = [i \in Classes |-> 0]

-----------------------------------------------------------------------------
(* The event loop *)

\* A microtask is queued: the continuation of bindPage after setupCamera threw,
\* or the second callback of a promise chain whose first callback has run.
\* No task (mouse event, animation frame, resolution of a promise by the browser
\* or the classifier) starts before the microtasks have run.
MicrotaskQueued ==
    \/ phase = "camera" /\ ~hasMedia
    \/ \E p \in pending : p.state = "labelled"

-----------------------------------------------------------------------------
(* setupGui *)

\* camera.js:86-105: one button and one info text per class
SetupGui == [i \in Classes |-> [fontWeight |-> "", innerText |-> NoExamplesText]]

\* Variant: the listeners share one loop variable (var i), which ends at NUM_CLASSES.
MouseDownValueShared(i) == NUM_CLASSES

\* camera.js:97: the mousedown listener of button i
MouseDownValue(i) == i

\* camera.js:98: the mouseup listener of a button
MouseUpValue == -1

MouseDown(i) ==
    /\ i < buttons
    /\ ~MicrotaskQueued
    /\ training' = MouseDownValue(i)
    /\ lastEvent' = <<"mousedown", i>>
    /\ UNCHANGED <<phase, hasMedia, display, infoContent, bindPageRejected, buttons,
                   infoTexts, model, video, classExampleCount, ticks, scheduled,
                   images, pending, lastTick, lastClassIndex, unhandled,
                   heldTicks>>

MouseUp(i) ==
    /\ i < buttons
    /\ ~MicrotaskQueued
    /\ training' = MouseUpValue
    /\ lastEvent' = <<"mouseup">>
    /\ UNCHANGED <<phase, hasMedia, display, infoContent, bindPageRejected, buttons,
                   infoTexts, model, video, classExampleCount, ticks, scheduled,
                   images, pending, lastTick, lastClassIndex, unhandled,
                   heldTicks>>

-----------------------------------------------------------------------------
(* animate *)

\* Variant: the test is `training > 0`, so class 0 is never trained.
TrainCallsPositive(t) == IF t > 0 THEN <<t>> ELSE <<>>

\* camera.js:134-137: the calls of model.addImage, by their class argument
TrainCalls(t) == IF t # -1 THEN <<t>> ELSE <<>>

RECURSIVE AddImages(_, _)
AddImages(counts, calls) ==
    IF calls = <<>> THEN counts
    ELSE AddImages(AddImage(counts, Head(calls)), Tail(calls))

\* Variant: the test is `Math.max(...exampleCount) >= 0`.
AnyExamplesOrNone(exampleCount) == MathMax(exampleCount) >= 0

\* Variant: the test is `Math.max(...exampleCount) > 1`.
AnyExamplesAboveOne(exampleCount) == MathMax(exampleCount) > 1

\* Variant: the test is `Math.max(...exampleCount) == 1`.
AnyExamplesExactlyOne(exampleCount) == MathMax(exampleCount) = 1

\* camera.js:141
AnyExamples(exampleCount) == MathMax(exampleCount) > 0

\* camera.js:142: the calls of model.predictClass, by their image argument
PredictCalls(exampleCount, image) ==
    IF AnyExamples(exampleCount) THEN <<image>> ELSE <<>>

\* Variant: the else branch of camera.js:161-163 is missing.
SyncDisposalsNone(predicting) == 0

\* Variant: the image is disposed right after the call of predictClass as well.
SyncDisposalsEager(predicting) == 1

\* camera.js:141, 161-163: the calls of image.dispose() made by animate itself
SyncDisposals(predicting) == IF predicting THEN 0 ELSE 1

\* Variant: requestAnimationFrame is called in the else branch only.
RequestAnimationFrameElse(queue, predicting) ==
    IF predicting THEN queue ELSE queue + 1

\* Variant: requestAnimationFrame is called in the predict branch and at the end.
RequestAnimationFrameTwice(queue, predicting) ==
    IF predicting THEN queue + 2 ELSE queue + 1

\* camera.js:167: requestAnimationFrame(animate), whatever the branch taken
RequestAnimationFrame(queue, predicting) == queue + 1

\* Variant: animate disarms the button after the example is added.
TrainingAfterAnimateReset(t) == -1

\* camera.js:127-168: animate reads training and does not assign it
TrainingAfterAnimate(t) == t

\* camera.js:127-168, called with `queue` callbacks still registered
animate(queue) ==
    LET image == ticks + 1
        trainCalls == TrainCalls(training)
        counts == AddImages(classExampleCount, trainCalls)
        exampleCount == GetClassExampleCount(counts)
        predictCalls == PredictCalls(exampleCount, image)
        predicting == predictCalls # <<>>
    IN  /\ ticks' = image
        /\ classExampleCount' = counts
        /\ images' = Append(images,
                        [disposals |-> SyncDisposals(predicting),
                         predict |-> IF predicting THEN "pending" ELSE "none",
                         labelled |-> {}])
        /\ pending' = pending \cup
                        { [image |-> predictCalls[n], exampleCount |-> exampleCount,
                           state |-> "predicting", res |-> NoRes] : n \in DOMAIN predictCalls }
        /\ scheduled' = RequestAnimationFrame(queue, predicting)
        /\ lastTick' = [image |-> image, training |-> training,
                        before |-> classExampleCount, trainCalls |-> trainCalls,
                        exampleCount |-> exampleCount, predictCalls |-> predictCalls,
                        rescheduled |-> RequestAnimationFrame(queue, predicting) - queue]
        /\ lastEvent' = <<"animate">>
        /\ training' = TrainingAfterAnimate(training)
        /\ heldTicks' = [i \in Classes |->
                            IF training = i THEN heldTicks[i] + 1 ELSE heldTicks[i]]

\* The browser runs a registered animation frame callback; at most max calls of
\* animate are explored.
TickUpTo(max) ==
    /\ phase = "running"
    /\ scheduled > 0
    /\ ticks < max
    /\ ~MicrotaskQueued
    /\ animate(scheduled - 1)
    /\ UNCHANGED <<phase, hasMedia, display, infoContent, bindPageRejected, buttons,
                   infoTexts, model, video, lastClassIndex, unhandled>>

Tick == TickUpTo(MaxTicks)

\* camera.js:144: the indices the loop of the first callback visits
LoopIndices == 0 .. (NUM_CLASSES - 1)

\* Variant: the else branch of camera.js:148-150 is missing.
FontWeightNoReset(old, classIndex, i) == IF classIndex = i THEN "bold" ELSE old

\* camera.js:146-150
FontWeight(old, classIndex, i) == IF classIndex = i THEN "bold" ELSE "normal"

\* Variant: the test is `exampleCount[i] >= 0`.
InnerTextAlways(old, count, confidence) ==
    IF count >= 0 THEN ExamplesText(count, confidence * 100) ELSE old

\* Variant: the count is added to the count the text shows.
InnerTextAccumulate(old, count, confidence) ==
    IF count > 0 THEN ExamplesText(old.count + count, confidence * 100) ELSE old

\* camera.js:153-156
InnerText(old, count, confidence) ==
    IF count > 0 THEN ExamplesText(count, confidence * 100) ELSE old

\* camera.js:144-157: the loop of the first callback, on the info texts `texts`
UpdateLabels(texts, res, exampleCount) ==
    [i \in DOMAIN texts |->
        IF i \in LoopIndices
        THEN [fontWeight |-> FontWeight(texts[i].fontWeight, res.classIndex, i),
              innerText |-> InnerText(texts[i].innerText, exampleCount[i],
                                      res.confidences[i])]
        ELSE texts[i]]

\* camera.js:143-158: predictClass resolves with res and the first callback runs,
\* reading exampleCount, the sequence obtained at camera.js:140
PredictResolved(p, res, exampleCount) ==
    /\ p \in pending
    /\ p.state = "predicting"
    /\ ~MicrotaskQueued
    /\ infoTexts' = UpdateLabels(infoTexts, res, exampleCount)
    /\ images' = [images EXCEPT ![p.image].predict = "resolved",
                                ![p.image].labelled = LoopIndices]
    /\ pending' = (pending \ {p}) \cup {[p EXCEPT !.state = "labelled", !.res = res,
                                                 !.exampleCount = exampleCount]}
    /\ lastClassIndex' = res.classIndex
    /\ lastEvent' = <<"labelled">>
    /\ UNCHANGED <<phase, hasMedia, display, infoContent, bindPageRejected, buttons,
                   training, model, video, classExampleCount, ticks, scheduled,
                   lastTick, unhandled,
                   heldTicks>>

\* camera.js:160: the second callback of the chain
ThenDispose(p) ==
    /\ p \in pending
    /\ p.state = "labelled"
    /\ images' = [images EXCEPT ![p.image].disposals = @ + 1]
    /\ pending' = pending \ {p}
    /\ lastEvent' = <<"disposed">>
    /\ UNCHANGED <<phase, hasMedia, display, infoContent, bindPageRejected, buttons,
                   infoTexts, training, model, video, classExampleCount, ticks,
                   scheduled, lastTick, lastClassIndex, unhandled,
                   heldTicks>>

\* Variant: the chain ends with .catch(() => {}).
ChainCatchesAll == TRUE

\* camera.js:142-160: the chain has no rejection handler
ChainCatches == FALSE

\* camera.js:142-160: predictClass rejects although examples are stored (outside
\* its contract); both callbacks are skipped and the chain ends rejected
PredictRejected(p) ==
    /\ p \in pending
    /\ p.state = "predicting"
    /\ ~MicrotaskQueued
    /\ images' = [images EXCEPT ![p.image].predict = "rejected"]
    /\ pending' = pending \ {p}
    /\ unhandled' = IF ChainCatches THEN unhandled ELSE unhandled \cup {p.image}
    /\ lastEvent' = <<"rejected predict">>
    /\ UNCHANGED <<phase, hasMedia, display, infoContent, bindPageRejected, buttons,
                   infoTexts, training, model, video, classExampleCount, ticks,
                   scheduled, lastTick, lastClassIndex,
                   heldTicks>>

-----------------------------------------------------------------------------
(* bindPage *)

\* camera.js:176-187: knn.load resolved; the page is shown, the GUI is built and
\* setupCamera is called
LoadResolved ==
    /\ phase = "loading"
    /\ model' = "knn"
    /\ display' = [display EXCEPT !.loading = "none", !.main = "block"]
    /\ buttons' = NUM_CLASSES
    /\ infoTexts' = SetupGui
    /\ phase' = "camera"
    /\ lastEvent' = <<"loaded">>
    /\ UNCHANGED <<hasMedia, infoContent, bindPageRejected, training, video,
                   classExampleCount, ticks, scheduled, images, pending, lastTick,
                   lastClassIndex, unhandled,
                   heldTicks>>

\* camera.js:176: knn.load rejected; nothing catches it
LoadRejected ==
    /\ phase = "loading"
    /\ phase' = "loadFailed"
    /\ bindPageRejected' = TRUE
    /\ lastEvent' = <<"loadFailed">>
    /\ UNCHANGED <<hasMedia, display, infoContent, buttons, infoTexts, training,
                   model, video, classExampleCount, ticks, scheduled, images,
                   pending, lastTick, lastClassIndex, unhandled,
                   heldTicks>>

\* Variant: camera.js:193 is missing.
ShowInfoMissing(d) == d

\* camera.js:193
ShowInfo(d) == [d EXCEPT !.info = "block"]

\* camera.js:189-195
Catch ==
    /\ infoContent' = FallbackMessage
    /\ display' = ShowInfo(display)
    /\ bindPageRejected' = TRUE
    /\ phase' = "cameraFailed"

\* camera.js:53-56: no media-capture API
SetupCameraThrows ==
    /\ phase = "camera"
    /\ ~hasMedia
    /\ Catch
    /\ lastEvent' = <<"unsupported">>
    /\ UNCHANGED <<hasMedia, buttons, infoTexts, training, model, video,
                   classExampleCount, ticks, scheduled, images, pending, lastTick,
                   lastClassIndex, unhandled,
                   heldTicks>>

\* camera.js:63: getUserMedia rejected (no camera, permission denied)
GetUserMediaRejected ==
    /\ phase = "camera"
    /\ hasMedia
    /\ Catch
    /\ lastEvent' = <<"rejected">>
    /\ UNCHANGED <<hasMedia, buttons, infoTexts, training, model, video,
                   classExampleCount, ticks, scheduled, images, pending, lastTick,
                   lastClassIndex, unhandled,
                   heldTicks>>

\* camera.js:63-77: getUserMedia resolved; setupCamera waits for the metadata
GetUserMediaResolved ==
    /\ phase = "camera"
    /\ hasMedia
    /\ phase' = "stream"
    /\ lastEvent' = <<"stream">>
    /\ UNCHANGED <<hasMedia, display, infoContent, bindPageRejected, buttons,
                   infoTexts, training, model, video, classExampleCount, ticks,
                   scheduled, images, pending, lastTick, lastClassIndex, unhandled,
                   heldTicks>>

\* Variant: setupCamera returns the video without waiting for the metadata.
ResolvesInAtOnce == "camera"

\* camera.js:73-77: the promise of setupCamera resolves in onloadedmetadata, set
\* once the stream is attached
ResolvesIn == "stream"

\* camera.js:74-76, 187-188, 198: the metadata is loaded, setupCamera resolves,
\* bindPage plays the video and calls animate
LoadedMetadata ==
    /\ phase = ResolvesIn
    /\ video' = "video"
    /\ phase' = "running"
    /\ animate(scheduled)
    /\ UNCHANGED <<hasMedia, display, infoContent, bindPageRejected, buttons,
                   infoTexts, model, lastClassIndex, unhandled>>

-----------------------------------------------------------------------------
Next ==
    \/ LoadResolved
    \/ LoadRejected
    \/ SetupCameraThrows
    \/ GetUserMediaRejected
    \/ GetUserMediaResolved
    \/ LoadedMetadata
    \/ \E i \in Classes : MouseDown(i)
    \/ \E i \in Classes : MouseUp(i)
    \/ Tick
    \/ \E p \in pending : \E res \in PredictionResults :
          \E exampleCount \in ReadLater(p.exampleCount, classExampleCount) :
             PredictResolved(p, res, exampleCount)
    \/ \E p \in pending : ThenDispose(p)

Spec == Init /\ [][Next]_vars

\* The browser runs a registered animation frame callback and runs the queued
\* microtasks.  Nothing is assumed of the mouse, of knn.load, of getUserMedia, of
\* the metadata event, nor of the time predictClass takes.
FairSpec ==
    /\ Spec
    /\ WF_vars(Tick)
    /\ WF_vars(\E p \in pending : ThenDispose(p))
    /\ WF_vars(SetupCameraThrows)

\* The classifier may also fail where its contract promises a result.
NextWithFailures ==
    \/ Next
    \/ \E p \in pending : PredictRejected(p)

FailSpec == Init /\ [][NextWithFailures]_vars

\* The scenario of one control held: the number of ticks it is held in the example.
ScenarioHeld == 5

\* A page that starts without failure and a user who presses one control once,
\* holds it during at least one tick and may release it; no other press.
ScenarioNext ==
    \/ LoadResolved
    \/ GetUserMediaResolved
    \/ LoadedMetadata
    \/ \E k \in Classes :
          /\ training = -1
          /\ \A i \in Classes : heldTicks[i] = 0
          /\ MouseDown(k)
    \/ \E k \in Classes :
          /\ training = k
          /\ heldTicks[k] >= 1
          /\ MouseUp(k)
    \/ TickUpTo(ScenarioHeld + 1)
    \/ \E p \in pending : \E res \in PredictionResults :
          \E exampleCount \in ReadLater(p.exampleCount, classExampleCount) :
             PredictResolved(p, res, exampleCount)
    \/ \E p \in pending : ThenDispose(p)

ScenarioInit == Init /\ hasMedia

ScenarioSpec == ScenarioInit /\ [][ScenarioNext]_vars

-----------------------------------------------------------------------------
(* Properties *)

Frames == DOMAIN images

AllZero(counts) == \A i \in DOMAIN counts : counts[i] = 0

SomePositive(counts) == \E i \in DOMAIN counts : counts[i] > 0

\* C1: a tick that reads only zero counts does not call predictClass, and
\* predictClass is never called, nor in flight, while the classifier stores no example.
C1_NoPredictWithoutExamples ==
    /\ (ticks > 0 /\ AllZero(lastTick.exampleCount)) => lastTick.predictCalls = <<>>
    /\ \A p \in pending : ~AllZero(p.exampleCount)
    /\ \A f \in Frames : images[f].predict # "none" => ~AllZero(classExampleCount)

\* A tick without examples made no call, and the next tick, after a press, made one.
C1_Witness ==
    /\ ticks = 2
    /\ images[1].predict = "none"
    /\ images[2].predict = "pending"
    /\ lastTick.predictCalls = <<2>>

\* C2: every call of animate captures one image; an image is disposed at most once;
\* the images not disposed are exactly those whose promise chain is not finished;
\* an image without a predictClass call was disposed by animate itself.
C2_ReleasedExactlyOnce ==
    /\ Frames = 1 .. ticks
    /\ \A f \in Frames :
        /\ images[f].disposals <= 1
        /\ images[f].disposals = 0 <=> \E p \in pending : p.image = f
        /\ images[f].predict = "none" => images[f].disposals = 1
    /\ \A p \in pending : p.image \in Frames /\ images[p.image].predict # "none"

\* Trained and predicted in the first tick, predicted without training in the
\* second, both chains finished and both images disposed once.
C2_Witness ==
    /\ ticks = 2
    /\ pending = {}
    /\ \A f \in Frames : images[f].predict = "resolved" /\ images[f].disposals = 1
    /\ lastTick.trainCalls = <<>>
    /\ ~AllZero(classExampleCount)

\* C3: an image given to predictClass is not disposed while that call is in flight,
\* and once disposed its predictClass has resolved and the first callback has
\* visited the label of every class.
C3_ReleasedAfterPredictAndLabels ==
    /\ \A p \in pending : images[p.image].disposals = 0
    /\ \A f \in Frames :
        (images[f].predict # "none" /\ images[f].disposals > 0) =>
            /\ images[f].predict = "resolved"
            /\ images[f].labelled = Classes
            /\ Classes = DOMAIN infoTexts

\* The predict of the first tick resolves after the second tick has run and its
\* chain has finished; the first image is still alive for its second callback.
C3_Witness ==
    /\ ticks = 2
    /\ \E p \in pending : p.image = 1 /\ p.state = "labelled"
    /\ images[1].disposals = 0
    /\ images[2].predict = "resolved"
    /\ images[2].disposals = 1

\* C4: in a tick that starts with training = k, a class, addImage is called exactly
\* once, with k, and the count of k after the tick is one more than before; in a
\* tick that starts with training = -1, addImage is not called and no count changes.
C4_TrainOncePerArmedTick ==
    ticks > 0 =>
        LET t == lastTick IN
        /\ t.training \in Classes =>
            /\ t.trainCalls = <<t.training>>
            /\ classExampleCount[t.training] = t.before[t.training] + 1
        /\ t.training = -1 =>
            /\ t.trainCalls = <<>>
            /\ classExampleCount = t.before

\* Button 0 held during two ticks.
C4_Witness ==
    /\ ticks = 2
    /\ lastTick.training = 0
    /\ lastTick.before[0] = 1
    /\ classExampleCount[0] = 2

\* C5: a tick whose counts, read after the optional addImage, have a positive entry
\* calls predictClass exactly once, on the image captured by that tick.
C5_PredictOncePerTickWithExamples ==
    (ticks > 0 /\ SomePositive(lastTick.exampleCount)) =>
        /\ lastTick.image = ticks
        /\ lastTick.predictCalls = <<lastTick.image>>
        /\ images[ticks].predict # "none"
        /\ Cardinality({ p \in pending : p.image = ticks }) =
              (IF images[ticks].disposals = 0 THEN 1 ELSE 0)

\* A tick that predicts without training, on examples of an earlier tick.
C5_Witness ==
    /\ ticks = 2
    /\ lastTick.trainCalls = <<>>
    /\ lastTick.predictCalls = <<2>>
    /\ \E p \in pending : p.image = 2 /\ p.state = "predicting"

\* C6: every call of animate registers exactly one next call, whether or not it
\* trained or predicted; once the loop runs a call is always registered; and when
\* the browser keeps running registered callbacks the ticks go on (here: up to
\* MaxTicks), also when no predictClass ever resolves.
C6_LoopNeverExits ==
    /\ [](ticks > 0 => lastTick.rescheduled = 1)
    /\ [](phase = "running" => scheduled >= 1)
    /\ [][phase = "running" => phase' = "running"]_vars
    /\ \A n \in 1 .. (MaxTicks - 1) :
          (phase = "running" /\ ticks = n) ~> (ticks = n + 1)

\* All ticks have run and trained, and none of their predicts has resolved.
C6_Witness ==
    /\ ticks = MaxTicks
    /\ scheduled = 1
    /\ \A f \in Frames : images[f].predict = "pending" /\ images[f].disposals = 0
    /\ Cardinality(pending) = MaxTicks

\* C7: training is -1 or a class index in every state; it is -1 at startup and as
\* long as no button exists; right after a mousedown on button i it is i, and right
\* after a mouseup it is -1.
C7_TrainingState ==
    /\ training \in {-1} \cup Classes
    /\ (lastEvent = <<"start">> \/ buttons = 0) => training = -1
    /\ lastEvent[1] = "mousedown" => (lastEvent[2] \in Classes /\ training = lastEvent[2])
    /\ lastEvent[1] = "mouseup" => training = -1

\* The last button was held during a tick and has just been released.
C7_Witness ==
    /\ lastEvent = <<"mouseup">>
    /\ training = -1
    /\ classExampleCount[NUM_CLASSES - 1] > 0

\* C8: once a predictClass has resolved, exactly one info text is bold, the one of
\* the class index of the latest result, and every other one is normal.
C8_OneEmphasized ==
    (\E f \in Frames : images[f].predict = "resolved") =>
        /\ lastClassIndex \in DOMAIN infoTexts
        /\ \A i \in DOMAIN infoTexts :
              infoTexts[i].fontWeight = (IF i = lastClassIndex THEN "bold" ELSE "normal")
        /\ Cardinality({ i \in DOMAIN infoTexts : infoTexts[i].fontWeight = "bold" }) = 1

\* Classes 0 and 1 have one example each and two predictions have resolved, the
\* later one for class 1.
C8_Witness ==
    /\ ticks = 2
    /\ \A f \in Frames : images[f].predict = "resolved"
    /\ classExampleCount[0] = 1 /\ classExampleCount[1] = 1
    /\ lastClassIndex = 1
    /\ infoTexts[1].fontWeight = "bold"
    /\ infoTexts[0].fontWeight = "normal"

C10_NoMediaCapture ==
    ~hasMedia =>
        /\ phase \in {"loading", "loadFailed", "camera", "cameraFailed"}
        /\ ticks = 0 /\ scheduled = 0 /\ images = <<>> /\ video = "undefined"
        /\ phase = "cameraFailed" =>
            /\ display.info = "block"
            /\ infoContent = FallbackMessage
            /\ bindPageRejected
            /\ buttons = NUM_CLASSES
            /\ DOMAIN infoTexts = Classes
            /\ display.main = "block"
            /\ display.loading = "none"
        /\ phase \in {"loading", "camera"} => ~bindPageRejected /\ display.info = FromPage

\* The failure was handled and a button was pressed afterwards.
C10_Witness ==
    /\ ~hasMedia
    /\ phase = "cameraFailed"
    /\ display.info = "block"
    /\ lastEvent = <<"mousedown", 1>>

\* C11: a rejected knn.load ends bindPage rejected for good, with no button, no
\* info text, no video, no call of animate and the model unset; a rejected
\* predictClass is not called again, is reported as unhandled and changes no label;
\* a chain that has ended either disposed its image after a resolved predictClass
\* that visited every label, or was rejected with no label visited; the counts a
\* tick reads and predicts on already hold the example it trained.
C11_FailuresPropagate ==
    /\ [](phase = "loadFailed" =>
            /\ bindPageRejected
            /\ model = "undefined" /\ video = "undefined"
            /\ buttons = 0 /\ infoTexts = <<>>
            /\ ticks = 0 /\ scheduled = 0 /\ images = <<>>)
    /\ [][phase = "loadFailed" => phase' = "loadFailed"]_vars
    /\ [](\A f \in Frames :
            /\ images[f].predict = "rejected" <=> f \in unhandled
            /\ images[f].predict = "rejected" =>
                  /\ images[f].labelled = {}
                  /\ ~\E p \in pending : p.image = f
            /\ (images[f].predict # "rejected" /\ ~\E p \in pending : p.image = f) =>
                  /\ images[f].disposals = 1
                  /\ images[f].predict = "resolved" => images[f].labelled = Classes)
    /\ [][\A f \in Frames :
            (images[f].predict = "pending" /\ images'[f].predict = "rejected") =>
                /\ infoTexts' = infoTexts
                /\ lastClassIndex' = lastClassIndex
                /\ images'[f].predict = "rejected"]_vars
    /\ [][\A f \in Frames : images[f].predict = "rejected" =>
                                images'[f] = images[f]]_vars
    /\ [](ticks > 0 =>
            /\ lastTick.exampleCount = AddImages(lastTick.before, lastTick.trainCalls)
            /\ \A n \in DOMAIN lastTick.predictCalls :
                  lastTick.predictCalls[n] = lastTick.image)

\* The predict of the first tick resolved and changed the labels; the predict of
\* the second tick was rejected and left them.
C11_Witness ==
    /\ ticks = 2
    /\ images[1].predict = "resolved" /\ images[1].disposals = 1
    /\ images[2].predict = "rejected"
    /\ unhandled = {2}
    /\ infoTexts[0].innerText # NoExamplesText
    /\ lastEvent = <<"rejected predict">>

\* The result "class 0 with confidence 1.0"
ClassZeroCertain ==
    [classIndex |-> 0, confidences |-> [i \in Classes |-> IF i = 0 THEN ConfScale ELSE 0]]

\* C12: when one control k is pressed once and held during n ticks, the count of k
\* is n and every other count is 0; after control 0 was held during the first
\* ScenarioHeld (5) ticks and released, the counts are 5, 0, 0, and right after the
\* labels are updated from the next tick's predict, which gave class 0 with
\* confidence 1, label 0 shows 5 examples and 100% and is bold and labels 1 and 2
\* are normal.
C12_HoldScenario ==
    /\ \A k \in Classes : heldTicks[k] > 0 =>
          /\ classExampleCount[k] = heldTicks[k]
          /\ \A i \in Classes \ {k} : classExampleCount[i] = 0
    /\ (/\ heldTicks[0] = ScenarioHeld
        /\ lastTick.image = ScenarioHeld + 1
        /\ lastTick.training = -1) =>
          /\ classExampleCount = [i \in Classes |-> IF i = 0 THEN 5 ELSE 0]
          /\ \A p \in pending :
                (p.image = lastTick.image /\ p.state = "labelled"
                    /\ p.res = ClassZeroCertain) =>
                  /\ infoTexts[0].innerText =
                        [kind |-> "examples", count |-> 5, pct |-> 100 * ConfScale]
                  /\ infoTexts[0].fontWeight = "bold"
                  /\ infoTexts[1].fontWeight = "normal"
                  /\ infoTexts[2].fontWeight = "normal"

\* Control 0 was held during ticks 1 to 5, the predict of tick 6 has just resolved
\* with class 0 and confidence 1, and an earlier predict is still in flight.
C12_Witness ==
    /\ heldTicks[0] = ScenarioHeld
    /\ lastTick.image = ScenarioHeld + 1
    /\ lastTick.training = -1
    /\ \E p \in pending :
          p.image = lastTick.image /\ p.state = "labelled" /\ p.res = ClassZeroCertain
    /\ \E p \in pending : p.image < lastTick.image /\ p.state = "predicting"
    /\ infoTexts[0].innerText.count = 5

\* C13: updating the labels a second time from the same result and the same counts
\* changes nothing: right after an update the labels are a fixed point of that
\* update, and for every predict in flight, every result and either reading of its
\* counts, two updates give the labels one update gives.
C13_UpdateIdempotent ==
    /\ \A p \in pending : p.state = "labelled" =>
          UpdateLabels(infoTexts, p.res, p.exampleCount) = infoTexts
    /\ \A p \in pending : p.state = "predicting" =>
          \A res \in PredictionResults :
            \A c \in ReadLater(p.exampleCount, classExampleCount) :
              UpdateLabels(UpdateLabels(infoTexts, res, c), res, c) =
                  UpdateLabels(infoTexts, res, c)

\* The labels were updated from the first predict and then from the second, with
\* another class and another count.
C13_Witness ==
    /\ ticks = 2
    /\ images[1].predict = "resolved" /\ images[1].disposals = 1
    /\ \E p \in pending :
          /\ p.image = 2 /\ p.state = "labelled"
          /\ p.res.classIndex = 1
          /\ p.exampleCount[0] = 1 /\ p.exampleCount[1] = 1
    /\ infoTexts[1].fontWeight = "bold"
    /\ infoTexts[0].innerText.kind = "examples"

\* C14: a predict in flight never holds back the loop: while the loop runs, ticks
\* remain to be explored and no microtask is queued, the next call of animate can
\* run, whatever predicts are in flight; and a call of animate leaves the predicts
\* in flight and their images as they are.
C14_TicksOverlap ==
    /\ (phase = "running" /\ ticks < MaxTicks /\ ~MicrotaskQueued) => ENABLED Tick
    /\ \A p \in pending : p.state = "predicting" =>
          /\ p.image <= ticks
          /\ images[p.image].predict = "pending"
          /\ images[p.image].disposals = 0

\* The second tick has just captured an image and trained while the predict of the
\* first tick is in flight: two predicts in flight, two images not disposed.
C14_Witness ==
    /\ ticks = 2
    /\ lastEvent = <<"animate">>
    /\ lastTick.trainCalls # <<>>
    /\ Cardinality({ p \in pending : p.state = "predicting" }) = 2
    /\ Cardinality({ f \in Frames : images[f].disposals = 0 }) = 2

\* The order of the steps of startup
StartupOrder ==
    { <<"loading", "camera">>, <<"loading", "loadFailed">>, <<"camera", "stream">>,
      <<"camera", "cameraFailed">>, <<"stream", "running">> }

\* C15: animate has run, an image exists or a callback is registered only when the
\* model is loaded and setupCamera has resolved; the video is set only by the step
\* that follows the metadata event; bindPage passes from the load to the page
\* shown with its controls, to the stream, to the metadata and the first call of
\* animate, in this order.
C15_StartupOrder ==
    /\ []((ticks > 0 \/ images # <<>> \/ scheduled > 0 \/ pending # {}) =>
            (phase = "running" /\ model = "knn" /\ video = "video"))
    /\ [](phase = "loading" =>
            /\ model = "undefined" /\ buttons = 0 /\ infoTexts = <<>>
            /\ display.loading = FromPage /\ display.main = FromPage)
    /\ [](phase \in {"camera", "stream", "running", "cameraFailed"} =>
            /\ model = "knn" /\ buttons = NUM_CLASSES
            /\ display.loading = "none" /\ display.main = "block")
    /\ [](video = "video" <=> phase = "running")
    /\ [][phase' # phase => <<phase, phase'>> \in StartupOrder]_vars
    /\ [][(ticks = 0 /\ ticks' > 0) =>
            (phase = "stream" /\ phase' = "running" /\ ticks' = 1)]_vars

\* The first call of animate has just run; button 1 was pressed before it.
C15_Witness ==
    /\ phase = "running"
    /\ ticks = 1
    /\ lastEvent = <<"animate">>
    /\ lastTick.training = 1
    /\ video = "video"

\* C16: in a tick that starts with a button held, the counts read after addImage
\* have a positive entry and predictClass is called in that tick: no tick trains
\* without predicting.
C16_TrainImpliesPredict ==
    /\ (ticks > 0 /\ lastTick.training # -1) =>
          /\ SomePositive(lastTick.exampleCount)
          /\ lastTick.exampleCount[lastTick.training] > 0
          /\ lastTick.predictCalls = <<lastTick.image>>
          /\ images[lastTick.image].predict # "none"
    /\ (ticks > 0 /\ lastTick.trainCalls # <<>>) => lastTick.predictCalls # <<>>

\* The first example ever is trained and predicted on in the same tick.
C16_Witness ==
    /\ ticks = 1
    /\ lastTick.training = 2
    /\ AllZero(lastTick.before)
    /\ lastTick.trainCalls = <<2>>
    /\ lastTick.predictCalls = <<1>>

\* C17: training changes only in a step that is a mousedown or a mouseup; a call
\* of animate, the callbacks of a resolved predictClass and the steps of bindPage
\* leave it as it is.
C17_TrainingOnlyByMouse ==
    /\ [][training' # training => lastEvent'[1] \in {"mousedown", "mouseup"}]_vars
    /\ [][(ticks' # ticks \/ images' # images \/ pending' # pending
            \/ infoTexts' # infoTexts \/ phase' # phase) => training' = training]_vars

\* Button 0 is still held after two ticks and after a predict resolved and its
\* image was disposed.
C17_Witness ==
    /\ ticks = 2
    /\ training = 0
    /\ heldTicks[0] = 2
    /\ images[1].predict = "resolved" /\ images[1].disposals = 1
    /\ lastEvent = <<"disposed">>

\* The images captured and not disposed
Live == { f \in Frames : images[f].disposals = 0 }

\* C18: when no microtask is queued, the images not disposed are as many as the
\* predicts in flight: each of them is the image of exactly one predictClass that
\* has not resolved, and each such predictClass holds an image not disposed.
C18_LiveFramesArePredicts ==
    ~MicrotaskQueued =>
        /\ Cardinality(Live) = Cardinality(pending)
        /\ \A f \in Live :
              Cardinality({ p \in pending : p.image = f /\ p.state = "predicting" }) = 1
        /\ \A p \in pending : p.state = "predicting" /\ p.image \in Live

\* Between tasks: the image of a tick without examples is disposed, the image of
\* a finished chain is disposed, the image of the predict in flight is not.
C18_Witness ==
    /\ ~MicrotaskQueued
    /\ ticks = MaxTicks
    /\ images[1].disposals = 1
    /\ Live = {ticks}
    /\ Cardinality(pending) = 1
    /\ lastEvent = <<"mouseup">>

\* C19: no step lowers a count of the classifier, and once a call of animate has
\* called predictClass, every later call of animate calls it too, on its own image.
C19_PredictOnceAlways ==
    /\ [][\A i \in Classes : classExampleCount'[i] >= classExampleCount[i]]_vars
    /\ [][(ticks' # ticks /\ \E f \in Frames : images[f].predict # "none") =>
            /\ ticks' = ticks + 1
            /\ images'[ticks'].predict # "none"
            /\ lastTick'.predictCalls = <<ticks'>>]_vars

\* The first tick trained and predicted; the button was released before the second
\* tick, which predicted without any button held.
C19_Witness ==
    /\ ticks = 2
    /\ heldTicks[0] = 1 /\ heldTicks[1] = 0 /\ heldTicks[2] = 0
    /\ images[1].predict # "none"
    /\ lastTick.training = -1
    /\ lastTick.predictCalls = <<2>>
    /\ training = 1

\* C20: before the loop is started no callback is registered and animate has not
\* run; once it is started exactly one callback is registered and not yet run,
\* whatever the number of predicts in flight; each call of animate registers one.
C20_LoopNeverForks ==
    /\ phase # "running" => (scheduled = 0 /\ ticks = 0)
    /\ phase = "running" => (scheduled = 1 /\ ticks >= 1)
    /\ ticks > 0 => lastTick.rescheduled = 1
    /\ Cardinality(pending) <= ticks

\* One callback is registered while two chains are unfinished, one of them between
\* its two callbacks.
C20_Witness ==
    /\ phase = "running"
    /\ scheduled = 1
    /\ ticks = 2
    /\ Cardinality(pending) = 2
    /\ \E p \in pending : p.state = "labelled"

====
